---- MODULE Spec2Model ----
(***************************************************************************)
(* A model of the query-to-answer pipeline of Intelligent_Search_Engine:   *)
(*                                                                         *)
(*   - the reranker of src/src/agent/reranker.py (flattening, score        *)
(*     normalisation, fusion, stable descending sort, top-k), exercised on *)
(*     bounded pools by the specification SpecRerank;                      *)
(*   - AIAgent.run and AIAgent._retrieve_documents of                      *)
(*     src/src/agent/orchestrator.py together with Synthesizer.synthesize  *)
(*     of src/src/agent/synthesizer.py, exercised by the specification     *)
(*     Spec, one step per pipeline stage.                                  *)
(*                                                                         *)
(* Numbers.  Python floats are modelled in exact fixed-point arithmetic.   *)
(* A retrieval score is an integer number of score units of 5e-10, so the  *)
(* tolerance 1e-9 of _normalize_retrieval_scores is Eps = 2 units.  alpha  *)
(* is an integer number of tenths (AlphaDen = 10).  A normalised score is  *)
(* a fraction num/den with one den for the whole pool, and a fused score   *)
(* is the integer  alpha*ce*den + (AlphaDen-alpha)*num  over the common    *)
(* denominator AlphaDen*den; orders of fused scores are therefore exact.   *)
(***************************************************************************)
EXTENDS Integers, Sequences, FiniteSets, TLC

VARIABLES
    \* ---- reranker harness (SpecRerank) ----
    rr_phase,        \* "idle" | "done"
    rr_results,      \* the Iterable[RetrievalResult] given to rerank_from_results
    rr_cfg,          \* [top_k, alpha, use_retrieval_score] of the call / Reranker
    rr_pool,         \* contexts: what gather_raw_contexts made of rr_results
    rr_ce,           \* cross-encoder scores returned by _score_batch, per context
    rr_norm,         \* norm_ret of the call: norm[i] = num[i]/den (num empty if unused)
    rr_order,        \* positions (in the gathered pool) of the returned contexts
    rr_out,          \* RerankResult.contexts
    rr_model_calls,  \* sizes of the batches the cross-encoder was run on, in order
    \* ---- orchestrator (Spec) ----
    pc,              \* position of AIAgent.run
    user_input,
    analysis_results,
    routing_results,
    tool_retrievals,
    skip_web_search,
    k,
    retrieval_results,
    calls,           \* log of retrieval_manager.retrieve calls, in call order
    raised,          \* log of the exceptions raised so far, with their stage
    rerank_calls,    \* log of the pools handed to reranker.rerank_from_results
    rerank_result,   \* the RerankResult _retrieve_documents returns
    synth_calls,     \* log of the context lists put into the synthesis prompt
    response,        \* what run returned
    \* ---- component operations exercised one call at a time ----
    fn_phase,        \* "idle" | "done"
    fn_call          \* the call made: its operation, its inputs and what it gave

rrVars == <<rr_phase, rr_results, rr_cfg, rr_pool, rr_ce, rr_norm, rr_order, rr_out,
            rr_model_calls>>
orchVars == <<pc, user_input, analysis_results, routing_results, tool_retrievals,
              skip_web_search, k, retrieval_results, calls, raised,
              rerank_calls, rerank_result, synth_calls, response>>
fnVars == <<fn_phase, fn_call>>
vars == <<rrVars, orchVars, fnVars>>

----------------------------------------------------------------------------
(* Bounds and program constants *)

\* most documents in one reranker input (SpecRerank)
MaxPool == 3
\* most documents one backend call returns (Spec)
MaxDocs == 1
\* most ticker symbols the router extracts (Spec)
MaxTickers == 2
\* contexts handed to _filter_contexts, and the largest character budget
MaxCtx == 3
MaxBudget == 4
\* code points in a query string
MaxQueryLen == 2
\* backends in the registry, and domain labels in an analysis
MaxTools == 2
MaxLabels == 2
\* backend names in one retrieve_from_multiple request
MaxRequested == 2
\* documents a backend produces before the top_k cut
MaxProduced == 3

\* hi - lo < 1e-9, in score units of 5e-10
Eps == 2
\* alpha is counted in tenths: the default 0.7 is 7
AlphaDen == 10
DefaultAlpha == 7
\* Reranker(batch_size=16)
BatchSize == 16
\* top_k of the orchestrator's rerank_from_results call
RerankTopK == 5
\* k = 10 / 3 / 2 / 5: top_k of the web_search call
DefaultK == 10
FinanceK == 3
WeatherK == 2
LocalRagK == 5
\* Synthesizer(max_contexts = 8, max_context_chars = 12000)
MaxContexts == 8
MaxContextChars == 12000
\* _detect_language: the class [\u4e00-\u9fff]
CJKFirst == 19968
CJKLast == 40959

----------------------------------------------------------------------------
(* Values *)

NoScore == [kind |-> "none", val |-> 0]
NaNScore == [kind |-> "nan", val |-> 0]
Num(v) == [kind |-> "num", val |-> v]

\* retrieval scores a document can carry: None, NaN, or a number of units
RetrievalScores == {NoScore, NaNScore} \cup {Num(v) : v \in 0..2}
\* cross-encoder logits
CEScores == {0, 1}
\* configured fusion weights, in tenths (alpha in [0,1])
Alphas == {0, DefaultAlpha, AlphaDen}

NoRerankScore == [kind |-> "none", val |-> 0, den |-> 1]

Min(a, b) == IF a <= b THEN a ELSE b
Max(a, b) == IF a >= b THEN a ELSE b

RECURSIVE Concat(_)
Concat(ss) == IF ss = <<>> THEN <<>> ELSE Head(ss) \o Concat(Tail(ss))

Range(s) == {s[i] : i \in 1..Len(s)}

\* all sequences over S of length at most n
SeqsUpTo(S, n) == UNION {[1..m -> S] : m \in 0..n}

----------------------------------------------------------------------------
(* reranker.py *)

\* RetrievedDocument / RetrievalResult as the reranker reads them
\* metadata dicts are functions from their keys to strings
EmptyMeta == [key \in {} |-> ""]
NoLatency == "<no latency>"

Doc(content, source, score) ==
    [content |-> content, source |-> source, score |-> score, metadata |-> EmptyMeta]
Result(provider, documents) ==
    [kind |-> "result", provider |-> provider, documents |-> documents,
     latency |-> NoLatency, metadata |-> EmptyMeta]
NoneResult ==
    [kind |-> "none", provider |-> "", documents |-> <<>>,
     latency |-> NoLatency, metadata |-> EmptyMeta]

ContextDoc(content, source, retrieval_score) ==
    [content |-> content, source |-> source, metadata |-> EmptyMeta,
     retrieval_score |-> retrieval_score, rerank_score |-> NoRerankScore]

\* dict.setdefault(key, value)
SetDefault(meta, key, value) ==
    IF key \in DOMAIN meta THEN meta
    ELSE [x \in DOMAIN meta \cup {key} |-> IF x = key THEN value ELSE meta[x]]

\* base_meta (lines 86-94): the result's metadata, then provider and latency
\* where the result has them and its metadata does not define the key
BaseMeta(res) ==
    LET with_provider == SetDefault(res.metadata, "provider", res.provider)
    IN IF res.latency = NoLatency THEN with_provider
       ELSE SetDefault(with_provider, "latency", res.latency)

MergeResultWins(base_meta, doc_meta) ==
    [x \in DOMAIN base_meta \cup DOMAIN doc_meta |->
        IF x \in DOMAIN base_meta THEN base_meta[x] ELSE doc_meta[x]]

\* {**base_meta, **doc_meta} (line 109)
MergeMeta(base_meta, doc_meta) ==
    [x \in DOMAIN base_meta \cup DOMAIN doc_meta |->
        IF x \in DOMAIN doc_meta THEN doc_meta[x] ELSE base_meta[x]]

\* one result's documents -> ContextDocs (the inner loop of gather_raw_contexts)
RECURSIVE GatherDocs(_, _, _)
GatherDocs(documents, provider, base_meta) ==
    IF documents = <<>> THEN <<>>
    ELSE LET doc == Head(documents)
             rest == GatherDocs(Tail(documents), provider, base_meta)
             doc_source == IF doc.source # "" THEN doc.source
                           ELSE IF provider # "" THEN provider ELSE "unknown"
             merged_meta == MergeMeta(base_meta, doc.metadata)
         IN IF doc.content = "" THEN rest
            ELSE <<[ContextDoc(doc.content, doc_source, doc.score)
                       EXCEPT !.metadata = merged_meta]>> \o rest

RECURSIVE gather_raw_contexts(_)
gather_raw_contexts(retrieval_results_) ==
    IF retrieval_results_ = <<>> THEN <<>>
    ELSE LET res == Head(retrieval_results_)
             rest == gather_raw_contexts(Tail(retrieval_results_))
         IN IF res.kind = "none" THEN rest
            ELSE GatherDocs(res.documents, res.provider, BaseMeta(res)) \o rest

\* the scores list: positions whose retrieval_score is present and not NaN
PresentIdx(contexts) == {i \in 1..Len(contexts) : contexts[i].retrieval_score.kind = "num"}

SetMin(S) == CHOOSE x \in S : \A y \in S : x <= y
SetMax(S) == CHOOSE x \in S : \A y \in S : x >= y

\* _normalize_retrieval_scores: norm[i] = num[i] / den
NormalizeSkipsEps(contexts) ==
    LET P == PresentIdx(contexts)
        n == Len(contexts)
    IN IF P = {} THEN [den |-> 1, num |-> [i \in 1..n |-> 0]]
       ELSE LET vals == {contexts[i].retrieval_score.val : i \in P}
                lo == SetMin(vals)
                hi == SetMax(vals)
            IN IF hi = lo THEN [den |-> 1, num |-> [i \in 1..n |-> 1]]
               ELSE [den |-> hi - lo,
                     num |-> [i \in 1..n |-> IF i \in P
                                             THEN contexts[i].retrieval_score.val - lo
                                             ELSE 0]]

NormalizeEqualIsZero(contexts) ==
    LET P == PresentIdx(contexts)
        n == Len(contexts)
    IN IF P = {} THEN [den |-> 1, num |-> [i \in 1..n |-> 0]]
       ELSE LET vals == {contexts[i].retrieval_score.val : i \in P}
                lo == SetMin(vals)
                hi == SetMax(vals)
            IN IF hi - lo < Eps THEN [den |-> 1, num |-> [i \in 1..n |-> 0]]
               ELSE [den |-> hi - lo,
                     num |-> [i \in 1..n |-> IF i \in P
                                             THEN contexts[i].retrieval_score.val - lo
                                             ELSE 0]]

NormalizeFromFirst(contexts) ==
    LET P == PresentIdx(contexts)
        n == Len(contexts)
    IN IF P = {} THEN [den |-> 1, num |-> [i \in 1..n |-> 0]]
       ELSE LET vals == {contexts[i].retrieval_score.val : i \in P}
                lo == contexts[SetMin(P)].retrieval_score.val
                hi == SetMax(vals)
            IN IF hi - lo < Eps THEN [den |-> 1, num |-> [i \in 1..n |-> 1]]
               ELSE [den |-> hi - lo,
                     num |-> [i \in 1..n |-> IF i \in P
                                             THEN contexts[i].retrieval_score.val - lo
                                             ELSE 0]]

_normalize_retrieval_scores(contexts) ==
    LET P == PresentIdx(contexts)
        n == Len(contexts)
    IN IF P = {} THEN [den |-> 1, num |-> [i \in 1..n |-> 0]]
       ELSE LET vals == {contexts[i].retrieval_score.val : i \in P}
                lo == SetMin(vals)
                hi == SetMax(vals)
            IN IF hi - lo < Eps THEN [den |-> 1, num |-> [i \in 1..n |-> 1]]
               ELSE [den |-> hi - lo,
                     num |-> [i \in 1..n |-> IF i \in P
                                             THEN contexts[i].retrieval_score.val - lo
                                             ELSE 0]]

\* step 2 of rerank: the fused scores, as integers over the common denominator
FusedWeightsSwapped(contexts, ce, alpha, use_retrieval_score) ==
    IF use_retrieval_score
    THEN LET norm_ret == _normalize_retrieval_scores(contexts)
         IN [den |-> AlphaDen * norm_ret.den,
             num |-> [i \in 1..Len(contexts) |->
                        (AlphaDen - alpha) * ce[i] * norm_ret.den + alpha * norm_ret.num[i]]]
    ELSE [den |-> 1, num |-> [i \in 1..Len(contexts) |-> ce[i]]]

FusedScores(contexts, ce, alpha, use_retrieval_score) ==
    IF use_retrieval_score
    THEN LET norm_ret == _normalize_retrieval_scores(contexts)
         IN [den |-> AlphaDen * norm_ret.den,
             num |-> [i \in 1..Len(contexts) |->
                        alpha * ce[i] * norm_ret.den + (AlphaDen - alpha) * norm_ret.num[i]]]
    ELSE [den |-> 1, num |-> [i \in 1..Len(contexts) |-> ce[i]]]

\* sorted(..., reverse=True): a stable sort, descending by key; positions 1..n
InsertUnstable(sorted, i, key) ==
    LET before == Cardinality({j \in 1..Len(sorted) : key[sorted[j]] > key[i]})
    IN SubSeq(sorted, 1, before) \o <<i>> \o SubSeq(sorted, before + 1, Len(sorted))

InsertDesc(sorted, i, key) ==
    LET before == Cardinality({j \in 1..Len(sorted) : key[sorted[j]] >= key[i]})
    IN SubSeq(sorted, 1, before) \o <<i>> \o SubSeq(sorted, before + 1, Len(sorted))

RECURSIVE SortedDesc(_, _)
SortedDesc(n, key) ==
    IF n = 0 THEN <<>> ELSE InsertDesc(SortedDesc(n - 1, key), n, key)

\* sorted_ctxs[:top_k]
TruncateOffByOne(s, top_k) == SubSeq(s, 1, Min(top_k - 1, Len(s)))

Truncate(s, top_k) == SubSeq(s, 1, Min(top_k, Len(s)))

\* the batches rerank runs _score_batch (and so the cross-encoder) on, by size:
\* none for an empty pool, else one per batch_size contexts
ModelCallsOnEmpty(contexts, batch_size) == <<Len(contexts)>>

ModelCalls(contexts, batch_size) ==
    IF contexts = <<>> THEN <<>>
    ELSE LET n == Len(contexts)
         IN [b \in 1..((n + batch_size - 1) \div batch_size) |->
               Min(b * batch_size, n) - (b - 1) * batch_size]

\* Reranker.rerank, as the positions of the returned contexts in the pool
RerankOrder(contexts, ce, top_k, alpha, use_retrieval_score) ==
    IF contexts = <<>> THEN <<>>
    ELSE LET fused == FusedScores(contexts, ce, alpha, use_retrieval_score)
         IN Truncate(SortedDesc(Len(contexts), fused.num), top_k)

RerankOverwritesScore(contexts, ce, top_k, alpha, use_retrieval_score) ==
    IF contexts = <<>> THEN <<>>
    ELSE LET fused == FusedScores(contexts, ce, alpha, use_retrieval_score)
             order == RerankOrder(contexts, ce, top_k, alpha, use_retrieval_score)
         IN [p \in 1..Len(order) |->
               [contexts[order[p]] EXCEPT
                  !.retrieval_score = Num(fused.num[order[p]]),
                  !.rerank_score = [kind |-> "num", val |-> fused.num[order[p]],
                                    den |-> fused.den]]]

\* Reranker.rerank: the returned contexts, rerank_score written back
rerank(contexts, ce, top_k, alpha, use_retrieval_score) ==
    IF contexts = <<>> THEN <<>>
    ELSE LET fused == FusedScores(contexts, ce, alpha, use_retrieval_score)
             order == RerankOrder(contexts, ce, top_k, alpha, use_retrieval_score)
         IN [p \in 1..Len(order) |->
               [contexts[order[p]] EXCEPT
                  !.rerank_score = [kind |-> "num", val |-> fused.num[order[p]],
                                    den |-> fused.den]]]

\* Reranker.rerank_from_results
rerank_from_results(retrieval_results_, ce, top_k, alpha, use_retrieval_score) ==
    rerank(gather_raw_contexts(retrieval_results_), ce, top_k, alpha, use_retrieval_score)

----------------------------------------------------------------------------
(* SpecFlatten: gather_raw_contexts on results that carry metadata *)

MaxFlatDocs == 2

FlatDocMetas == {EmptyMeta, [provider |-> "doc"]}
FlatDocs ==
    {[Doc(c, src, Num(1)) EXCEPT !.metadata = m] :
        c \in {"", "a"}, src \in {"", "web"}, m \in FlatDocMetas}
FlatResultMetas == {EmptyMeta, [provider |-> "cache", latency |-> "cached"]}
FlatResults ==
    {[Result(p, docs) EXCEPT !.latency = l, !.metadata = m] :
        p \in {"", "web_search"}, l \in {NoLatency, "0.5"},
        m \in FlatResultMetas, docs \in SeqsUpTo(FlatDocs, MaxFlatDocs)}
\* a second result behind a None entry, so that result order shows
FlatSecond == [Result("local_rag", <<Doc("b", "", Num(0))>>) EXCEPT !.metadata = [usage |-> "u"]]
FlatInputs ==
    {<<r>> : r \in FlatResults} \cup {<<r, NoneResult, FlatSecond>> : r \in FlatResults}

FlattenCall ==
    /\ fn_phase = "idle"
    /\ \E retrieval_results_ \in FlatInputs :
         fn_call' = [op |-> "flatten", retrieval_results |-> retrieval_results_,
                     contexts |-> gather_raw_contexts(retrieval_results_)]
    /\ fn_phase' = "done"
    /\ UNCHANGED <<rrVars, orchVars>>

----------------------------------------------------------------------------
(* SpecPermute: rerank on a pool and on a permutation of the same candidates *)

MaxPerm == 3

PermContents == <<"a", "b", "c", "d">>
PermScores == {Num(0), Num(2)}
PermConfigs == {[alpha |-> DefaultAlpha, use_retrieval_score |-> u] : u \in BOOLEAN}
Perms(n) == {f \in [1..n -> 1..n] : \A i, j \in 1..n : f[i] = f[j] => i = j}
Permuted(s, f) == [i \in 1..Len(s) |-> s[f[i]]]

\* the same Reranker run on the candidates as they come and as permuted by
\* perm, the cross-encoder giving each candidate the same logit in both runs
PermuteCall ==
    /\ fn_phase = "idle"
    /\ \E n \in 1..MaxPerm :
         \E scores \in [1..n -> PermScores], ce \in [1..n -> CEScores],
            perm \in Perms(n), top_k \in 1..n, cfg \in PermConfigs :
           LET contexts == [i \in 1..n |-> ContextDoc(PermContents[i], "web", scores[i])]
               fused == FusedScores(contexts, ce, cfg.alpha, cfg.use_retrieval_score)
           IN fn_call' = [op |-> "permute", contexts |-> contexts, perm |-> perm,
                          top_k |-> top_k, final |-> fused.num,
                          returned |-> rerank(contexts, ce, top_k, cfg.alpha,
                                              cfg.use_retrieval_score),
                          returned_permuted |->
                              rerank(Permuted(contexts, perm), Permuted(ce, perm),
                                     top_k, cfg.alpha, cfg.use_retrieval_score)]
    /\ fn_phase' = "done"
    /\ UNCHANGED <<rrVars, orchVars>>

----------------------------------------------------------------------------
(* SpecRerank: rerank_from_results on every bounded input *)

\* documents of the harness: one with empty content, one per retrieval score
RRDocs == {Doc("", "web", NoScore)} \cup {Doc("a", "web", s) : s \in RetrievalScores}

\* the documents as one RetrievalResult, or spread over two around a None entry
RRResults(docs, split) ==
    IF split /\ docs # <<>>
    THEN <<Result("web_search", <<Head(docs)>>), NoneResult, Result("local_rag", Tail(docs))>>
    ELSE <<Result("web_search", docs)>>

\* Reranker(use_retrieval_score, alpha) configurations
RRConfigs == {[alpha |-> a, use_retrieval_score |-> TRUE] : a \in Alphas}
             \cup {[alpha |-> DefaultAlpha, use_retrieval_score |-> FALSE]}

\* the inputs of the harness: every document list up to MaxPool as one result,
\* and every shorter non-empty one spread over two results
RRInputs ==
    {RRResults(docs, FALSE) : docs \in SeqsUpTo(RRDocs, MaxPool)}
    \cup {RRResults(docs, TRUE) : docs \in SeqsUpTo(RRDocs, MaxPool - 1) \ {<<>>}}

NoNorm == [den |-> 1, num |-> <<>>]

RRIdleCfg == [top_k |-> 1, alpha |-> DefaultAlpha, use_retrieval_score |-> TRUE]

RRInit ==
    /\ rr_phase = "idle"
    /\ rr_results \in RRInputs
    /\ rr_cfg = RRIdleCfg
    /\ rr_pool = <<>>
    /\ rr_ce = <<>>
    /\ rr_norm = NoNorm
    /\ rr_order = <<>>
    /\ rr_out = <<>>
    /\ rr_model_calls = <<>>

\* one call of Reranker.rerank_from_results(query, rr_results, top_k) on a
\* Reranker configured with cfg, the cross-encoder answering ce
RRCall ==
    /\ rr_phase = "idle"
    /\ \E top_k \in 1..(MaxPool + 1), cfg \in RRConfigs :
         LET contexts == gather_raw_contexts(rr_results)
         IN \E ce \in [1..Len(contexts) -> CEScores] :
              /\ rr_cfg' = [top_k |-> top_k, alpha |-> cfg.alpha,
                            use_retrieval_score |-> cfg.use_retrieval_score]
              /\ rr_pool' = contexts
              /\ rr_ce' = ce
              /\ rr_norm' = IF cfg.use_retrieval_score /\ contexts # <<>>
                             THEN _normalize_retrieval_scores(contexts)
                             ELSE NoNorm
              /\ rr_order' = RerankOrder(contexts, ce, top_k, cfg.alpha,
                                         cfg.use_retrieval_score)
              /\ rr_out' = rerank_from_results(rr_results, ce, top_k, cfg.alpha,
                                               cfg.use_retrieval_score)
              /\ rr_model_calls' = ModelCalls(contexts, BatchSize)
    /\ rr_phase' = "done"
    /\ UNCHANGED rr_results

----------------------------------------------------------------------------
(* synthesizer.py *)

\* _filter_contexts: the first max_k contexts, cut at the first one that would
\* take the total length over max_chars
RECURSIVE FilterSkipping(_, _, _)
FilterSkipping(contexts, used_chars, max_chars) ==
    IF contexts = <<>> THEN <<>>
    ELSE LET length == Len(Head(contexts).content)
         IN IF used_chars + length > max_chars
            THEN FilterSkipping(Tail(contexts), used_chars, max_chars)
            ELSE <<Head(contexts)>>
                 \o FilterSkipping(Tail(contexts), used_chars + length, max_chars)

RECURSIVE FilterFrom(_, _, _)
FilterFrom(contexts, used_chars, max_chars) ==
    IF contexts = <<>> THEN <<>>
    ELSE LET length == Len(Head(contexts).content)
         IN IF used_chars + length > max_chars THEN <<>>
            ELSE <<Head(contexts)>> \o FilterFrom(Tail(contexts), used_chars + length, max_chars)

_filter_contexts(contexts, max_k, max_chars) ==
    FilterFrom(SubSeq(contexts, 1, Min(max_k, Len(contexts))), 0, max_chars)

\* _detect_language on a string given as its code points
DetectsFromFirstOnly(raw_query) ==
    IF raw_query # <<>> /\ raw_query[1] \in CJKFirst..CJKLast THEN "zh" ELSE "en"

_detect_language(raw_query) ==
    IF raw_query = <<>> THEN "en"
    ELSE IF \E i \in 1..Len(raw_query) : raw_query[i] \in CJKFirst..CJKLast
         THEN "zh" ELSE "en"

\* the language instruction _build_messages puts into the prompt (the Chinese
\* one is written in Chinese in the source)
ZhInstruction == "answer in fluent, professional Traditional Chinese"
EnInstruction == "Please answer in fluent, professional English."
lang_instruction(detected_language) ==
    IF detected_language = "zh" THEN ZhInstruction ELSE EnInstruction

\* the context block of _build_messages
NoDocumentsBlock == "No external documents retrieved."
ContextBlock(contexts) == IF contexts # <<>> THEN "documents" ELSE NoDocumentsBlock

\* what chat.completions.create gives as choices[0].message.content
NoContent == [some |-> FALSE, text |-> ""]
Content(t) == [some |-> TRUE, text |-> t]
LLMContents == {NoContent, Content(""), Content("  "), Content(" The answer. ")}

\* str.strip on the texts above
Strip(t) == CASE t = "  " -> ""
              [] t = " The answer. " -> "The answer."
              [] OTHER -> t

\* answer_text = choice.message.content or ""; answer = answer_text.strip()
AnswerText(content) == Strip(IF content.some THEN content.text ELSE "")

\* SynthesizedResponse.to_sources
to_sources(contexts) ==
    [i \in 1..Len(contexts) |->
       [title |-> contexts[i].source,
        score |-> IF contexts[i].rerank_score.kind # "none" THEN contexts[i].rerank_score
                  ELSE IF contexts[i].retrieval_score.kind # "none"
                       THEN [kind |-> contexts[i].retrieval_score.kind,
                             val |-> contexts[i].retrieval_score.val, den |-> 1]
                       ELSE [kind |-> "num", val |-> 0, den |-> 1],
        content |-> contexts[i].content]]

----------------------------------------------------------------------------
(* SpecSynth: the context budget and the language choice of synthesize *)

NoCall == [op |-> "none"]

FnIdle == fn_phase = "idle" /\ fn_call = NoCall

\* contexts of distinct lengths 0..3
SynContents == {"", "a", "bb", "ccc"}
SynContexts == SeqsUpTo({ContextDoc(c, "web", NoScore) : c \in SynContents}, MaxCtx)

\* code points: Latin A, hiragana, the two ends of the class and their neighbours
CodePoints == {65, 12354, CJKFirst - 1, CJKFirst, CJKLast, CJKLast + 1}
Queries == SeqsUpTo(CodePoints, MaxQueryLen)

\* synthesize(raw_query, query, rerank_result, top_k), lines 126-134: the budget
SynFilter ==
    /\ fn_phase = "idle"
    /\ \E contexts \in SynContexts, top_k \in 0..(MaxCtx + 1), max_chars \in 0..MaxBudget :
         fn_call' = [op |-> "filter", contexts |-> contexts, top_k |-> top_k,
                     max_context_chars |-> max_chars,
                     filtered_contexts |-> _filter_contexts(contexts, top_k, max_chars)]
    /\ fn_phase' = "done"
    /\ UNCHANGED <<rrVars, orchVars>>

\* synthesize(raw_query, query, ...), lines 136-140: the language of the prompt
SynDetect ==
    /\ fn_phase = "idle"
    /\ \E raw_query \in Queries, query \in Queries :
         fn_call' = [op |-> "language", raw_query |-> raw_query, query |-> query,
                     detected_language |-> _detect_language(raw_query),
                     instruction |-> lang_instruction(_detect_language(raw_query))]
    /\ fn_phase' = "done"
    /\ UNCHANGED <<rrVars, orchVars>>

----------------------------------------------------------------------------
(* router.py: Router.route, exercised by SpecRoute *)

\* backends that can be registered, and the registry orders list_retrievers gives
RegisteredTools == {"finance", "hko_warnsum", "local_rag", "web_search"}
Registries ==
    {r \in SeqsUpTo(RegisteredTools, MaxTools) :
        \A i, j \in 1..Len(r) : i # j => r[i] # r[j]}

\* getattr(retriever_instance, "domain", ["general"]): the class attribute of
\* FinanceRetriever and HKOWarnSumRetriever, the default for the others
ToolDomains(name) ==
    CASE name = "finance" -> {"finance", "stock", "investment", "ticker"}
      [] name = "hko_warnsum" -> {"tropical", "warning", "fire"}
      [] OTHER -> {"general"}

\* a domain_areas entry that is not a string
NotAString == "<None>"
AttributeErrorText == "'NoneType' object has no attribute 'lower'"

\* domain labels and keyword lists of an analysis
DomainLabels == {"finance", "Finance", "warning", "general", "sports", NotAString}
KeywordLists == {<<>>, <<"Stock", "hk">>}
RouteAnalyses ==
    {[rewritten_query |-> "q", keywords |-> kw, domain_areas |-> d] :
        kw \in KeywordLists, d \in SeqsUpTo(DomainLabels, MaxLabels)}

\* str.lower on the labels and keywords above
Lower(t) == CASE t = "Finance" -> "finance"
              [] t = "Stock" -> "stock"
              [] OTHER -> t

\* any(domain.lower() in tool_domains for domain in query_domains), line 170:
\* "yes", "no", or "raise" when a non-string is reached first
RECURSIVE AnyDomainIn(_, _)
AnyDomainIn(query_domains, tool_domains) ==
    IF query_domains = <<>> THEN "no"
    ELSE IF Head(query_domains) = NotAString THEN "raise"
    ELSE IF Lower(Head(query_domains)) \in tool_domains THEN "yes"
    ELSE AnyDomainIn(Tail(query_domains), tool_domains)

\* the loop of lines 167-178 over tool_info, in registry order: first match wins
RECURSIVE ExactMatch(_, _)
ExactMatch(registry, query_domains) ==
    IF registry = <<>> THEN [kind |-> "none", tool |-> ""]
    ELSE LET m == AnyDomainIn(query_domains, ToolDomains(Head(registry)))
         IN IF m = "raise" THEN [kind |-> "raise", tool |-> ""]
            ELSE IF m = "yes" THEN [kind |-> "tool", tool |-> Head(registry)]
            ELSE ExactMatch(Tail(registry), query_domains)

\* what the collaborators of one route call do: tool discovery ("ok" or the
\* text of its exception), the routing chain, the retrieval-metadata chain
LLMOutcomes ==
    {[kind |-> "raise", tool |-> "", text |-> "rate limit"],
     [kind |-> "answer", tool |-> "", text |-> "nothing fits"]}
    \cup {[kind |-> "answer", tool |-> t, text |-> "fits"] : t \in {"finance", "local_rag"}}
MetadataOutcomes ==
    {[kind |-> "raise", fields |-> {}], [kind |-> "answer", fields |-> {"ticker_symbols"}]}
RouteOutcomes ==
    [discovery : {"ok", "registry unavailable"}, llm : LLMOutcomes, metadata : MetadataOutcomes]

\* _extract_retrieval_metadata: the required fields, or {} when the chain raises
_extract_retrieval_metadata(outcome) ==
    IF outcome.kind = "raise" THEN {} ELSE outcome.fields

RouteErrorSilent(e, llm_consulted) ==
    [selected_tool |-> "web_search",
     reasoning |-> "No suitable tool found; defaulting to 'web_search'.",
     retrieval_metadata |-> {},
     raised |-> <<e>>, llm_consulted |-> llm_consulted, llm_named |-> "",
     metadata_raised |-> FALSE]

\* the decision of the except branch of route (lines 228-235)
RouteError(e, llm_consulted) ==
    [selected_tool |-> "web_search",
     reasoning |-> "Error in routing: " \o e \o ". Defaulting to 'web_search'.",
     retrieval_metadata |-> {},
     raised |-> <<e>>, llm_consulted |-> llm_consulted, llm_named |-> "",
     metadata_raised |-> FALSE]

RouteDecision(tool, reasoning, metadata, llm_named, metadata_raised) ==
    [selected_tool |-> tool, reasoning |-> reasoning, retrieval_metadata |-> metadata,
     raised |-> <<>>, llm_consulted |-> llm_named # "<not asked>",
     llm_named |-> IF llm_named = "<not asked>" THEN "" ELSE llm_named,
     metadata_raised |-> metadata_raised]

\* Router.route (lines 152-235).  The fields raised, llm_consulted, llm_named
\* and metadata_raised are not part of the returned dict: they record what
\* happened during the call
route(analysis_results_, registry, o) ==
    IF o.discovery # "ok" THEN RouteError(o.discovery, FALSE)
    ELSE LET query_domains == analysis_results_.domain_areas
             exact == ExactMatch(registry, query_domains)
         IN IF exact.kind = "raise" THEN RouteError(AttributeErrorText, FALSE)
            ELSE IF exact.kind = "tool"
            THEN RouteDecision(exact.tool,
                               "Exact domain match found for tool '" \o exact.tool \o "'.",
                               _extract_retrieval_metadata(o.metadata), "<not asked>",
                               o.metadata.kind = "raise")
            ELSE IF o.llm.kind = "raise" THEN RouteError(o.llm.text, TRUE)
            ELSE IF o.llm.tool # ""
            THEN RouteDecision(o.llm.tool, o.llm.text,
                               _extract_retrieval_metadata(o.metadata), o.llm.tool,
                               o.metadata.kind = "raise")
            ELSE RouteDecision("web_search",
                               "No suitable tool found; defaulting to 'web_search'.",
                               {}, "", FALSE)

\* one call of route on a registry, an analysis and collaborator outcomes
RouteCall ==
    /\ fn_phase = "idle"
    /\ \E registry \in Registries, a \in RouteAnalyses, o \in RouteOutcomes :
         fn_call' = [op |-> "route", registry |-> registry, analysis_results |-> a,
                     routing_results |-> route(a, registry, o)]
    /\ fn_phase' = "done"
    /\ UNCHANGED <<rrVars, orchVars>>

----------------------------------------------------------------------------
(* query_analyzer.py: QueryAnalyzer.analyze, exercised by SpecAnalyze *)

\* the keys of analysis_results that AIAgent.run (orchestrator.py) reads at lines 215-218
AnalysisKeysRead == {"rewritten_query", "keywords", "time_related", "domain_area"}

AnalyzerQueries == {"", "weather", "stock price of AAPL"}
ImageLists == {<<>>, <<"chart.png">>}

\* what rewrite_chain.invoke does: it raises, or returns a dict with or
\* without the key "text"
RewriteOutcomes ==
    {[kind |-> "raise", has_text |-> FALSE, text |-> ""],
     [kind |-> "answer", has_text |-> FALSE, text |-> ""]}
    \cup {[kind |-> "answer", has_text |-> TRUE, text |-> t] :
            t \in {"", "  ", "current weather in Hong Kong"}}

\* what analysis_chain.invoke does: it raises, or returns a parsed QueryAnalysis
ExtractionOutcomes ==
    {[kind |-> "raise", keywords |-> <<>>, query_type |-> "", domain_areas |-> <<>>,
      complexity |-> ""]}
    \cup {[kind |-> "answer", keywords |-> kw, query_type |-> "factual",
           domain_areas |-> d, complexity |-> "easy"] :
            kw \in {<<>>, <<"weather">>}, d \in SeqsUpTo({"finance", "general"}, MaxLabels)}

\* QueryRewriter.rewrite (lines 77-124)
rewrite(query, outcome) ==
    IF outcome.kind = "raise" THEN query
    ELSE IF outcome.has_text THEN outcome.text
    ELSE query

\* IntentExtractor.analyze (lines 164-189)
IntentExtractor_analyze(query, outcome) ==
    IF outcome.kind = "raise"
    THEN [original_query |-> "", rewritten_query |-> query, keywords |-> <<>>,
          query_type |-> "unknown", domain_areas |-> <<>>, complexity |-> "medium"]
    ELSE [original_query |-> "", rewritten_query |-> query, keywords |-> outcome.keywords,
          query_type |-> outcome.query_type, domain_areas |-> outcome.domain_areas,
          complexity |-> outcome.complexity]

\* QueryAnalyzer.analyze (lines 200-240)
analyze(query, images, rewrite_outcome, extraction_outcome) ==
    LET rewritten_query == rewrite(query, rewrite_outcome)
        extracted == IntentExtractor_analyze(rewritten_query, extraction_outcome)
    IN [original_query |-> query,
        rewritten_query |-> rewritten_query,
        keywords |-> extracted.keywords,
        query_type |-> extracted.query_type,
        domain_areas |-> extracted.domain_areas,
        complexity |-> extracted.complexity,
        has_images |-> Len(images) > 0]

\* one call of analyze, and whether run (lines 214-222) gets from its result
\* to the routing step
AnalyzeCall ==
    /\ fn_phase = "idle"
    /\ \E query \in AnalyzerQueries, images \in ImageLists,
          ro \in RewriteOutcomes, eo \in ExtractionOutcomes :
         LET a == analyze(query, images, ro, eo)
         IN fn_call' = [op |-> "analyze", query |-> query, images |-> images,
                        rewrite_raised |-> ro.kind = "raise",
                        extraction_raised |-> eo.kind = "raise",
                        analysis_results |-> a,
                        reaches_routing |-> AnalysisKeysRead \subseteq DOMAIN a]
    /\ fn_phase' = "done"
    /\ UNCHANGED <<rrVars, orchVars>>

----------------------------------------------------------------------------
(* manager.py: RetrievalManager, exercised by SpecManager *)

\* self.retrievers after _initialize_retrievers, in insertion order
ManagerRetrievers == <<"local_rag", "web_search", "weather", "finance", "transport">>

\* names a caller may ask for: the registered ones and one that is not
RequestNames == Range(ManagerRetrievers) \cup {"news"}

\* what retriever.retrieve(query, top_k) does: it raises or returns result dicts
ManagerBackendOutcomes ==
    {[kind |-> "raise", results |-> <<>>]}
    \cup {[kind |-> "ok", results |-> [i \in 1..n |-> [content |-> "doc", rank |-> i]]] :
            n \in 0..MaxDocs}

\* the ValueError of line 49: its message names the requested retriever only
UnknownRetrieverError(retriever_name) ==
    [type |-> "ValueError",
     message |-> "retriever does not exist: " \o retriever_name,
     names |-> {retriever_name}]

\* result['retriever'] = retriever_name, lines 55-56
Tagged(results, retriever_name) ==
    [i \in 1..Len(results) |->
       [content |-> results[i].content, rank |-> results[i].rank,
        retriever |-> retriever_name]]

\* retrieve_from_single (lines 36-60); invoked lists the backends it called
retrieve_from_single(retriever_name, outcome) ==
    IF retriever_name \notin Range(ManagerRetrievers)
    THEN [raised |-> TRUE, error |-> UnknownRetrieverError(retriever_name),
          results |-> <<>>, invoked |-> <<>>]
    ELSE [raised |-> FALSE, error |-> [type |-> "", message |-> "", names |-> {}],
          results |-> IF outcome.kind = "raise" THEN <<>>
                      ELSE Tagged(outcome.results, retriever_name),
          invoked |-> <<retriever_name>>]

\* retrieve_from_multiple (lines 62-97): one task per registered name, names
\* that are not registered are skipped with a printed warning
RECURSIVE retrieve_from_multiple(_, _)
retrieve_from_multiple(retrievers, outcomes) ==
    IF retrievers = <<>>
    THEN [raised |-> FALSE, error |-> [type |-> "", message |-> "", names |-> {}],
          results |-> <<>>, invoked |-> <<>>]
    ELSE LET rest == retrieve_from_multiple(Tail(retrievers), Tail(outcomes))
         IN IF Head(retrievers) \in Range(ManagerRetrievers)
            THEN LET one == retrieve_from_single(Head(retrievers), Head(outcomes))
                 IN [rest EXCEPT !.results = one.results \o @,
                                 !.invoked = one.invoked \o @]
            ELSE rest

\* retrieve_with_fallback (lines 99-122)
retrieve_with_fallback(primary_retrievers, primary_outcomes, fallback_retrievers, fallback_outcomes, top_k) ==
    LET primary == retrieve_from_multiple(primary_retrievers, primary_outcomes)
        use_fallback == Len(primary.results) < top_k \div 2
        fallback == retrieve_from_multiple(fallback_retrievers, fallback_outcomes)
        results == IF use_fallback THEN primary.results \o fallback.results
                   ELSE primary.results
    IN [primary_results |-> primary.results,
        fallback_queried |-> use_fallback,
        fallback_results |-> IF use_fallback THEN fallback.results ELSE <<>>,
        results |-> SubSeq(results, 1, Min(top_k, Len(results)))]

FallbackNames == {"web_search", "news"}
FallbackLists == {<<>>, <<"local_rag">>}

ManagerFallback ==
    /\ fn_phase = "idle"
    /\ \E primary_retrievers \in SeqsUpTo(FallbackNames, MaxRequested),
          fallback_retrievers \in FallbackLists, top_k \in 1..(MaxRequested + 2) :
         \E primary_outcomes \in [1..Len(primary_retrievers) -> ManagerBackendOutcomes],
            fallback_outcomes \in [1..Len(fallback_retrievers) -> ManagerBackendOutcomes] :
           fn_call' = [op |-> "retrieve_with_fallback",
                       requested |-> primary_retrievers,
                       fallback |-> fallback_retrievers,
                       top_k |-> top_k,
                       returned |-> retrieve_with_fallback(
                                       primary_retrievers, primary_outcomes,
                                       fallback_retrievers, fallback_outcomes, top_k)]
    /\ fn_phase' = "done"
    /\ UNCHANGED <<rrVars, orchVars>>

ManagerSingle ==
    /\ fn_phase = "idle"
    /\ \E retriever_name \in RequestNames, outcome \in ManagerBackendOutcomes :
         fn_call' = [op |-> "retrieve_from_single", requested |-> <<retriever_name>>,
                     returned |-> retrieve_from_single(retriever_name, outcome)]
    /\ fn_phase' = "done"
    /\ UNCHANGED <<rrVars, orchVars>>

ManagerMultiple ==
    /\ fn_phase = "idle"
    /\ \E retrievers \in SeqsUpTo(RequestNames, MaxRequested) :
         \E outcomes \in [1..Len(retrievers) -> ManagerBackendOutcomes] :
            fn_call' = [op |-> "retrieve_from_multiple", requested |-> retrievers,
                        returned |-> retrieve_from_multiple(retrievers, outcomes)]
    /\ fn_phase' = "done"
    /\ UNCHANGED <<rrVars, orchVars>>

----------------------------------------------------------------------------
(* retrievers: the top_k cut of a retrieve call, exercised by SpecRetrieve *)

\* results[:top_k] for top_k >= 0
SliceOneMore(results, top_k) == SubSeq(results, 1, Min(top_k + 1, Len(results)))

SliceTo(results, top_k) == SubSeq(results, 1, Min(top_k, Len(results)))

\* similarity of a stored document to the query, in tenths
Similarities == {0, 5, 15}

\* _format_result: the score clamped to [0, 1]
FormatResult(doc, score) == [doc |-> doc, score |-> Max(0, Min(10, score))]

\* LocalRAGRetriever.retrieve (lines 70-98) on documents with the given
\* similarities: those with a positive score, by descending score
PositiveScore(scored) == scored.score > 0
ScoredDocs(similarity) ==
    LET scored == SelectSeq([i \in 1..Len(similarity) |-> [doc |-> i, score |-> similarity[i]]],
                            PositiveScore)
        order == SortedDesc(Len(scored), [i \in 1..Len(scored) |-> scored[i].score])
    IN [p \in 1..Len(scored) |-> FormatResult(scored[order[p]].doc, scored[order[p]].score)]

LocalRAG_retrieve(similarity, top_k) == SliceTo(ScoredDocs(similarity), top_k)

\* TransportRetriever.retrieve (lines 39-68): the routes found, cut to top_k,
\* or nothing when a lookup raises
Routes(n) == [i \in 1..n |-> FormatResult(i, 9)]
Transport_retrieve(routes, lookup_raises, top_k) ==
    IF lookup_raises THEN <<>> ELSE SliceTo(routes, top_k)

\* BaseRetriever.retrieve of the retrievers that implement _retrieve: the
\* documents _retrieve produced cut to top_k, its metadata kept as returned
EchoDocs(n) == [i \in 1..n |-> Doc("hello", "echo", Num(2))]
BaseRetriever_retrieve(produced, metadata, top_k) ==
    [documents |-> SliceTo(produced, top_k), metadata |-> metadata]

\* WebSearchRetriever.retrieve (lines 40-68): the mock search results for the
\* query, cut to top_k inside _mock_search, formatted with a rank-based score.
\* searched records that the search ran; raised that retrieve raised.
MockResults == <<"example.com", "professional.com", "guide.com">>
RetrieverQueries == {"", "  ", "hk news"}
WebSearch_retrieve(query, top_k) ==
    LET search_results == SliceTo(MockResults, top_k)
    IN [raised |-> FALSE, searched |-> TRUE,
        documents |-> [i \in 1..Len(search_results) |->
                         FormatResult(search_results[i], Max(1, 10 - (i - 1)))]]

WebSearchRetrieveCall ==
    /\ fn_phase = "idle"
    /\ \E query \in RetrieverQueries, top_k \in 0..(MaxProduced + 1) :
         LET r == WebSearch_retrieve(query, top_k)
         IN fn_call' = [op |-> "web_search", query |-> query, top_k |-> top_k,
                        raised |-> r.raised, searched |-> r.searched,
                        documents |-> r.documents]
    /\ fn_phase' = "done"
    /\ UNCHANGED <<rrVars, orchVars>>

LocalRagRetrieveCall ==
    /\ fn_phase = "idle"
    /\ \E similarity \in SeqsUpTo(Similarities, MaxProduced), top_k \in 0..(MaxProduced + 1) :
         fn_call' = [op |-> "local_rag", top_k |-> top_k,
                     produced |-> ScoredDocs(similarity),
                     documents |-> LocalRAG_retrieve(similarity, top_k),
                     metadata |-> [count |-> 0]]
    /\ fn_phase' = "done"
    /\ UNCHANGED <<rrVars, orchVars>>

TransportRetrieveCall ==
    /\ fn_phase = "idle"
    /\ \E n \in 0..MaxProduced, lookup_raises \in BOOLEAN, top_k \in 0..(MaxProduced + 1) :
         fn_call' = [op |-> "transport", top_k |-> top_k,
                     produced |-> IF lookup_raises THEN <<>> ELSE Routes(n),
                     documents |-> Transport_retrieve(Routes(n), lookup_raises, top_k),
                     metadata |-> [count |-> 0]]
    /\ fn_phase' = "done"
    /\ UNCHANGED <<rrVars, orchVars>>

BaseRetrieveCall ==
    /\ fn_phase = "idle"
    /\ \E n \in 0..MaxProduced, top_k \in 1..(MaxProduced + 1) :
         LET result == BaseRetriever_retrieve(EchoDocs(n), [count |-> n], top_k)
         IN fn_call' = [op |-> "base", top_k |-> top_k, produced |-> EchoDocs(n),
                        documents |-> result.documents, metadata |-> result.metadata]
    /\ fn_phase' = "done"
    /\ UNCHANGED <<rrVars, orchVars>>

----------------------------------------------------------------------------
(* orchestrator.py: AIAgent.run and AIAgent._retrieve_documents *)

\* texts of the exceptions a collaborator may raise
Errs == {"timed out", "boom"}

\* what the preprocessing step hands to run: with or without "raw_query"
UserInputs == {[raw_query |-> "what is the weather", attachments |-> <<>>],
               [attachments |-> <<>>]}

\* what query_analyzer.analyze may return: the keys run reads, or the result
\* dict of query_analyzer.py, which has no "time_related"
AnalysisValues ==
    {[rewritten_query |-> "weather today", keywords |-> <<>>, time_related |-> <<>>,
      domain_area |-> "general"],
     [rewritten_query |-> "weather today", keywords |-> <<>>, domain_areas |-> <<>>]}

\* backend names the router may select
Tools == {"transport", "finance", "weather", "hko_warnsum", "local_rag",
          "hko_flw", "web_search"}

TickerLists == UNION {[1..n -> {"AAPL"}] : n \in 0..MaxTickers}

\* what router.route may return: selected_tools with no or one specialised tool
\* and the metadata extracted for it, or the dict of router.py ("selected_tool")
RoutingValues ==
    {[selected_tools |-> <<>>, reasoning |-> "r", retrieval_metadata |-> [x |-> 0]]}
    \cup {[selected_tools |-> <<t>>, reasoning |-> "r", retrieval_metadata |-> [x |-> 0]] :
            t \in Tools}
    \cup {[selected_tools |-> <<"finance">>, reasoning |-> "r",
           retrieval_metadata |-> [ticker_symbols |-> ts]] : ts \in TickerLists}
    \cup {[selected_tool |-> "web_search", reasoning |-> "r", retrieval_metadata |-> [x |-> 0]]}

\* the documents a backend may return: content empty or not; web documents carry
\* a lower native score than those of the specialised backends
BackendScore(name) == IF name = "web_search" THEN Num(0) ELSE Num(2)
BackendDocs(name) == {Doc(c, name, BackendScore(name)) : c \in {"", "a"}}

\* outcome of one retrieval_manager.retrieve(name=..., ...) call: it raises, or
\* it returns a RetrievalResult
Raised(e) == [ok |-> FALSE, err |-> e, documents |-> <<>>]
Returned(docs) == [ok |-> TRUE, err |-> "", documents |-> docs]
CallOutcomes(name) ==
    {Raised(e) : e \in {"timed out"}}
    \cup {Returned(docs) : docs \in SeqsUpTo(BackendDocs(name), MaxDocs)}

Call(name, top_k, out) ==
    [name |-> name, top_k |-> top_k, ok |-> out.ok, documents |-> out.documents]

\* the terminal response of the except branch of run
ApologyPrefix == "Sorry, an error occurred while processing your query: "

ErrorResponseNoText(e) ==
    [answer |-> ApologyPrefix, sources |-> <<>>, confidence |-> 0, error |-> ""]

ErrorResponse(e) ==
    [answer |-> ApologyPrefix \o e, sources |-> <<>>, confidence |-> 0, error |-> e]

NoValue == [none |-> TRUE]
EmptyRerankResult == [contexts |-> <<>>]

\* the tool after whose successful retrieval web search is skipped
SkipsWebSearchToo(tool) == tool \in {"hko_warnsum", "weather"}

SkipsWebSearch(tool) == tool = "hko_warnsum"

\* k after a successful specialised retrieval
KAfter(tool) ==
    CASE tool = "finance" -> FinanceK
      [] tool = "weather" -> WeatherK
      [] tool = "local_rag" -> LocalRagK
      [] OTHER -> DefaultK

OrchInit ==
    /\ pc = "idle"
    /\ user_input = NoValue
    /\ analysis_results = NoValue
    /\ routing_results = NoValue
    /\ tool_retrievals = <<>>
    /\ skip_web_search = FALSE
    /\ k = DefaultK
    /\ retrieval_results = NoValue
    /\ calls = <<>>
    /\ raised = <<>>
    /\ rerank_calls = <<>>
    /\ rerank_result = NoValue
    /\ synth_calls = <<>>
    /\ response = NoValue

\* run(user_input) is called: a fresh activation
RunCall ==
    /\ pc \in {"idle", "returned"}
    /\ \E ui \in UserInputs : user_input' = ui
    /\ pc' = "called"
    /\ analysis_results' = NoValue
    /\ routing_results' = NoValue
    /\ tool_retrievals' = <<>>
    /\ skip_web_search' = FALSE
    /\ k' = DefaultK
    /\ retrieval_results' = NoValue
    /\ calls' = <<>>
    /\ raised' = <<>>
    /\ rerank_calls' = <<>>
    /\ rerank_result' = NoValue
    /\ synth_calls' = <<>>
    /\ response' = NoValue
    /\ UNCHANGED <<rrVars, fnVars>>

\* the except branch of run (lines 282-289): stage raised e
FailAndContinue(stage, e) ==
    /\ raised' = Append(raised, [stage |-> stage, err |-> e])
    /\ response' = ErrorResponse(e)
    /\ pc' = "reranked"

\* the except clause of run (lines 282-289): the exception ends the request
Fail(stage, e) ==
    /\ raised' = Append(raised, [stage |-> stage, err |-> e])
    /\ response' = ErrorResponse(e)
    /\ pc' = "returned"

\* lines 190-209: user_input["raw_query"] and the attachments
Receive ==
    /\ pc = "called"
    /\ IF "raw_query" \in DOMAIN user_input
       THEN /\ pc' = "received"
            /\ UNCHANGED <<raised, response>>
       ELSE Fail("input", "'raw_query'")
    /\ UNCHANGED <<user_input, analysis_results, routing_results, tool_retrievals,
                   skip_web_search, k, retrieval_results, calls, rerank_calls,
                   rerank_result, synth_calls>>
    /\ UNCHANGED <<rrVars, fnVars>>

\* lines 211-222: query analysis and the keys printed from its result
Analyze ==
    /\ pc = "received"
    /\ \/ \E e \in Errs :
            /\ Fail("analysis", e)
            /\ UNCHANGED analysis_results
       \/ \E a \in AnalysisValues :
            /\ analysis_results' = a
            /\ IF AnalysisKeysRead \subseteq DOMAIN a
               THEN /\ pc' = "analyzed"
                    /\ UNCHANGED <<raised, response>>
               ELSE Fail("analysis", "'time_related'")
    /\ UNCHANGED <<user_input, routing_results, tool_retrievals, skip_web_search, k,
                   retrieval_results, calls, rerank_calls, rerank_result, synth_calls>>
    /\ UNCHANGED <<rrVars, fnVars>>

\* lines 224-235: routing, then "web_search" appended to selected_tools
Route ==
    /\ pc = "analyzed"
    /\ \/ \E e \in Errs :
            /\ Fail("routing", e)
            /\ UNCHANGED routing_results
       \/ \E r \in RoutingValues :
            IF "selected_tools" \in DOMAIN r
            THEN /\ routing_results' =
                      [r EXCEPT !.selected_tools = Append(r.selected_tools, "web_search")]
                 /\ pc' = "routed"
                 /\ UNCHANGED <<raised, response>>
            ELSE /\ routing_results' = r
                 /\ Fail("routing", "'selected_tools'")
    /\ UNCHANGED <<user_input, analysis_results, tool_retrievals, skip_web_search, k,
                   retrieval_results, calls, rerank_calls, rerank_result, synth_calls>>
    /\ UNCHANGED <<rrVars, fnVars>>

\* the finance loop (lines 71-85): one call per ticker, until one raises
FirstFailure(outs) ==
    IF \E i \in 1..Len(outs) : ~outs[i].ok
    THEN CHOOSE i \in 1..Len(outs) : ~outs[i].ok /\ \A j \in 1..(i - 1) : outs[j].ok
    ELSE Len(outs) + 1

\* lines 57-118 of _retrieve_documents: the specialised retriever, if one is
\* selected, inside its own try/except
RetrieveSpecialized ==
    /\ pc = "routed"
    /\ LET selected_tools == routing_results.selected_tools
           retrieval_metadata == routing_results.retrieval_metadata
           specialized_tool == selected_tools[1]
       IN IF Len(selected_tools) > 1
          THEN IF specialized_tool \in {"transport", "weather", "hko_warnsum", "local_rag"}
               THEN \E out \in CallOutcomes(specialized_tool) :
                      /\ calls' = Append(calls, Call(specialized_tool, DefaultK, out))
                      /\ IF out.ok
                         THEN /\ tool_retrievals' =
                                   <<Result(specialized_tool, out.documents)>>
                              /\ k' = KAfter(specialized_tool)
                              /\ skip_web_search' = SkipsWebSearch(specialized_tool)
                              /\ UNCHANGED raised
                         ELSE /\ raised' = Append(raised, [stage |-> "backend",
                                                            err |-> out.err])
                              /\ UNCHANGED <<tool_retrievals, k, skip_web_search>>
               ELSE IF specialized_tool = "finance"
               THEN IF "ticker_symbols" \in DOMAIN retrieval_metadata
                    THEN \E outs \in [1..Len(retrieval_metadata.ticker_symbols)
                                        -> CallOutcomes("finance_yf")] :
                           LET f == FirstFailure(outs)
                               made == Min(f, Len(outs))
                           IN /\ calls' = calls \o [i \in 1..made |->
                                                      Call("finance_yf", DefaultK, outs[i])]
                              /\ tool_retrievals' =
                                   [i \in 1..(f - 1) |->
                                      Result("finance_yf", outs[i].documents)]
                              /\ IF f <= Len(outs)
                                 THEN /\ raised' = Append(raised, [stage |-> "backend",
                                                                    err |-> outs[f].err])
                                      /\ UNCHANGED k
                                 ELSE /\ k' = IF Len(outs) > 0 THEN KAfter("finance") ELSE k
                                      /\ UNCHANGED raised
                              /\ UNCHANGED skip_web_search
                    ELSE /\ raised' = Append(raised, [stage |-> "backend",
                                                       err |-> "'ticker_symbols'"])
                         /\ UNCHANGED <<calls, tool_retrievals, k, skip_web_search>>
               ELSE UNCHANGED <<calls, tool_retrievals, k, skip_web_search, raised>>
          ELSE UNCHANGED <<calls, tool_retrievals, k, skip_web_search, raised>>
    /\ pc' = "tools_done"
    /\ UNCHANGED <<user_input, analysis_results, routing_results, retrieval_results,
                   rerank_calls, rerank_result, synth_calls, response>>
    /\ UNCHANGED <<rrVars, fnVars>>

\* documents of the specialised results, in order (documents.extend)
RECURSIVE DocsOfAll(_)
DocsOfAll(results) ==
    IF results = <<>> THEN <<>> ELSE Head(results).documents \o DocsOfAll(Tail(results))

\* lines 120-147 and the outer except (158-168): web search unless skipped; its
\* result, extended by the specialised documents, becomes retrieval_results
RetrieveWeb ==
    /\ pc = "tools_done"
    /\ IF ~skip_web_search
       THEN \E out \in CallOutcomes("web_search") :
              /\ calls' = Append(calls, Call("web_search", k, out))
              /\ IF out.ok
                 THEN /\ retrieval_results' =
                           Result("web_search", out.documents \o DocsOfAll(tool_retrievals))
                      /\ pc' = "retrieved"
                      /\ UNCHANGED <<raised, rerank_result>>
                 ELSE /\ raised' = Append(raised, [stage |-> "backend", err |-> out.err])
                      /\ rerank_result' = EmptyRerankResult
                      /\ pc' = "reranked"
                      /\ UNCHANGED retrieval_results
       ELSE /\ retrieval_results' =
                 Result(Head(tool_retrievals).provider, DocsOfAll(tool_retrievals))
            /\ pc' = "retrieved"
            /\ UNCHANGED <<calls, raised, rerank_result>>
    /\ UNCHANGED <<user_input, analysis_results, routing_results, tool_retrievals,
                   skip_web_search, k, rerank_calls, synth_calls, response>>
    /\ UNCHANGED <<rrVars, fnVars>>

\* the relevance the cross-encoder gives a context: a function of its text
Relevance(context) == Len(context.content)

\* lines 149-156 and the outer except: rerank_from_results([retrieval_results],
\* top_k=5) on the default Reranker(), which may raise
Rerank ==
    /\ pc = "retrieved"
    /\ LET pool == gather_raw_contexts(<<retrieval_results>>)
           ce == [i \in 1..Len(pool) |-> Relevance(pool[i])]
       IN /\ rerank_calls' = Append(rerank_calls, pool)
          /\ \/ /\ rerank_result' =
                     [contexts |-> rerank_from_results(<<retrieval_results>>, ce,
                                                       RerankTopK, DefaultAlpha, TRUE)]
                /\ UNCHANGED raised
             \/ \E e \in {"boom"} :
                  /\ raised' = Append(raised, [stage |-> "rerank", err |-> e])
                  /\ rerank_result' = EmptyRerankResult
    /\ pc' = "reranked"
    /\ UNCHANGED <<user_input, analysis_results, routing_results, tool_retrievals,
                   skip_web_search, k, retrieval_results, calls, synth_calls, response>>
    /\ UNCHANGED <<rrVars, fnVars>>

\* lines 247-271 with Synthesizer.synthesize: filter, prompt, one completion
\* call that raises or returns a content, and the success response
Synthesize ==
    /\ pc = "reranked"
    /\ LET filtered_contexts == _filter_contexts(rerank_result.contexts, MaxContexts,
                                                 MaxContextChars)
       IN /\ synth_calls' = Append(synth_calls, [contexts |-> filtered_contexts,
                                                 block |-> ContextBlock(filtered_contexts)])
          /\ \/ \E e \in Errs : Fail("synthesis", e)
             \/ \E content \in LLMContents :
                  /\ response' = [answer |-> AnswerText(content),
                                  sources |-> to_sources(filtered_contexts),
                                  confidence |-> 1,
                                  analysis_results |-> analysis_results,
                                  llm_metadata |-> [llm_finish_reason |-> "stop"]]
                  /\ pc' = "returned"
                  /\ UNCHANGED raised
    /\ UNCHANGED <<user_input, analysis_results, routing_results, tool_retrievals,
                   skip_web_search, k, retrieval_results, calls, rerank_calls,
                   rerank_result>>
    /\ UNCHANGED <<rrVars, fnVars>>

----------------------------------------------------------------------------
(* SpecGather: the tasks of retrieve_from_multiple, completing in any order *)

GatherNames == {"web_search", "finance", "news"}
PendingTask == [kind |-> "pending", results |-> <<>>]

\* tasks (lines 75-81): the positions of the requested names that are registered
RECURSIVE GatherTasks(_, _)
GatherTasks(retrievers, i) ==
    IF i > Len(retrievers) THEN <<>>
    ELSE IF retrievers[i] \in Range(ManagerRetrievers)
         THEN <<i>> \o GatherTasks(retrievers, i + 1)
         ELSE GatherTasks(retrievers, i + 1)

GatherMergeAsCompleted(task_results, completed) ==
    Concat([p \in 1..Len(completed) |-> task_results[completed[p]]])

\* asyncio.gather and the merge loop (lines 87-95): the tasks' results in task
\* order, whatever the order they completed in
GatherMerge(task_results, completed) ==
    Concat([t \in 1..Len(task_results) |-> task_results[t]])

\* the call creates its tasks
GatherStart ==
    /\ fn_phase = "idle"
    /\ \E retrievers \in SeqsUpTo(GatherNames, MaxRequested) :
         LET tasks == GatherTasks(retrievers, 1)
         IN fn_call' = [op |-> "gather", requested |-> retrievers, tasks |-> tasks,
                        outcome |-> [t \in 1..Len(tasks) |-> PendingTask],
                        completed |-> <<>>, results |-> <<>>]
    /\ fn_phase' = "running"
    /\ UNCHANGED <<rrVars, orchVars>>

\* one pending task finishes: its retriever raised or returned
TaskComplete ==
    /\ fn_phase = "running"
    /\ \E t \in 1..Len(fn_call.tasks), outcome \in ManagerBackendOutcomes :
         /\ fn_call.outcome[t] = PendingTask
         /\ fn_call' = [fn_call EXCEPT !.outcome[t] = outcome,
                                       !.completed = Append(@, t)]
    /\ UNCHANGED <<fn_phase, rrVars, orchVars>>

\* every task has finished: gather hands the results over and they are merged
GatherReturn ==
    /\ fn_phase = "running"
    /\ Len(fn_call.completed) = Len(fn_call.tasks)
    /\ LET task_results ==
             [t \in 1..Len(fn_call.tasks) |->
                retrieve_from_single(fn_call.requested[fn_call.tasks[t]],
                                     fn_call.outcome[t]).results]
       IN fn_call' = [fn_call EXCEPT
                        !.results = GatherMerge(task_results, fn_call.completed)]
    /\ fn_phase' = "done"
    /\ UNCHANGED <<rrVars, orchVars>>

----------------------------------------------------------------------------
(* SpecChunk: TextPreprocessor.chunk_text, one loop iteration per step *)

MaxText == 6
MaxChunkSize == 5
MaxChunks == 8

\* texts are sequences of characters; positions are 0-based as in the source
ChunkChars == {"a", ".", " "}
ChunkTexts == SeqsUpTo(ChunkChars, MaxText)
\* the punctuation marks of line 148 that occur in ChunkChars, in list order
Punctuation == <<".">>

\* a slice bound as Python reads it
PyIndex(i, n) == IF i < 0 THEN Max(n + i, 0) ELSE Min(i, n)

\* text.rfind(punctuation, start, end)
rfind(text, punctuation, start, end) ==
    LET lo == PyIndex(start, Len(text))
        hi == PyIndex(end, Len(text))
        found == {i \in lo..(hi - 1) : text[i + 1] = punctuation}
    IN IF found = {} THEN -1 ELSE SetMax(found)

\* lines 146-152: the end of the chunk, moved back to a sentence boundary
RECURSIVE BoundaryEnd(_, _, _, _, _)
BoundaryEnd(text, start, end, chunk_size, p) ==
    IF p > Len(Punctuation) THEN end
    ELSE LET last_punct == rfind(text, Punctuation[p], start, end)
         IN IF last_punct # -1 /\ last_punct > start + chunk_size \div 2
            THEN last_punct + 1
            ELSE BoundaryEnd(text, start, end, chunk_size, p + 1)

ChunkEnd(text, start, chunk_size) ==
    LET end == start + chunk_size
    IN IF end < Len(text) THEN BoundaryEnd(text, start, end, chunk_size, 1) ELSE end

\* text[start:end].strip() is not empty
ChunkNotBlank(text, start, end) ==
    \E i \in PyIndex(start, Len(text))..(PyIndex(end, Len(text)) - 1) : text[i + 1] # " "

\* line 158
NextStart(end, overlap, n) == IF end < n THEN end - overlap ELSE end

\* the call: lines 136-140
ChunkStart ==
    /\ fn_phase = "idle"
    /\ \E text \in ChunkTexts, chunk_size \in 1..MaxChunkSize :
         \E overlap \in 0..(chunk_size - 1) :
           IF Len(text) <= chunk_size
           THEN /\ fn_call' = [op |-> "chunk_text", text |-> text,
                               chunk_size |-> chunk_size, overlap |-> overlap,
                               start |-> 0, n_chunks |-> 1, covered |-> Len(text)]
                /\ fn_phase' = "done"
           ELSE /\ fn_call' = [op |-> "chunk_text", text |-> text,
                               chunk_size |-> chunk_size, overlap |-> overlap,
                               start |-> 0, n_chunks |-> 0, covered |-> 0]
                /\ fn_phase' = "running"
    /\ UNCHANGED <<rrVars, orchVars>>

\* one iteration of the while loop (lines 142-158); the length of chunks is
\* counted up to MaxChunks
ChunkStep ==
    /\ fn_phase = "running"
    /\ fn_call.op = "chunk_text"
    /\ fn_call.start < Len(fn_call.text)
    /\ LET text == fn_call.text
           start == fn_call.start
           end == ChunkEnd(text, start, fn_call.chunk_size)
       IN fn_call' = [fn_call EXCEPT
                        !.n_chunks = IF ChunkNotBlank(text, start, end)
                                     THEN Min(@ + 1, MaxChunks) ELSE @,
                        !.covered = Max(@, Min(end, Len(text))),
                        !.start = NextStart(end, fn_call.overlap, Len(text))]
    /\ UNCHANGED <<fn_phase, rrVars, orchVars>>

\* the loop condition fails: return chunks (line 160)
ChunkReturn ==
    /\ fn_phase = "running"
    /\ fn_call.op = "chunk_text"
    /\ fn_call.start >= Len(fn_call.text)
    /\ fn_phase' = "done"
    /\ UNCHANGED <<fn_call, rrVars, orchVars>>

----------------------------------------------------------------------------
(* SpecHealth: AIAgent.health_check *)

\* the components of the pipeline (lines 27-31), and the ones whose
\* health_check the dict of lines 294-301 awaits
Components == {"query_analyzer", "router", "retrieval_manager", "reranker", "synthesizer"}
ConsultedComponents == {"query_analyzer", "router", "reranker", "synthesizer"}

\* what awaiting a component's health_check does: it returns a boolean, or it
\* raises (an AttributeError when the component has no such method)
SelfCheckOutcomes == {"healthy", "unhealthy", "raises"}
SelfChecks == [Components -> SelfCheckOutcomes]

health_check(self_check) ==
    IF \E c \in ConsultedComponents : self_check[c] = "raises"
    THEN [raised |-> FALSE, status |-> [c \in Components |-> FALSE]]
    ELSE [raised |-> FALSE,
          status |-> [c \in ConsultedComponents |-> self_check[c] = "healthy"]]

HealthCheckCall ==
    /\ fn_phase = "idle"
    /\ \E self_check \in SelfChecks :
         LET r == health_check(self_check)
         IN fn_call' = [op |-> "health_check", self_check |-> self_check,
                        raised |-> r.raised, status |-> r.status]
    /\ fn_phase' = "done"
    /\ UNCHANGED <<rrVars, orchVars>>

----------------------------------------------------------------------------
(* Specifications *)

Init ==
    /\ OrchInit
    /\ rr_phase = "idle" /\ rr_results = <<>> /\ rr_cfg = RRIdleCfg /\ rr_pool = <<>>
    /\ rr_ce = <<>> /\ rr_norm = NoNorm /\ rr_order = <<>> /\ rr_out = <<>>
    /\ rr_model_calls = <<>>
    /\ FnIdle

Next ==
    \/ RunCall
    \/ Receive
    \/ Analyze
    \/ Route
    \/ RetrieveSpecialized
    \/ RetrieveWeb
    \/ Rerank
    \/ Synthesize

Spec == Init /\ [][Next]_vars

InitRerank == OrchInit /\ RRInit /\ FnIdle

NextRerank == RRCall /\ UNCHANGED <<orchVars, fnVars>>

SpecRerank == InitRerank /\ [][NextRerank]_vars

RRIdle ==
    /\ rr_phase = "idle" /\ rr_results = <<>> /\ rr_cfg = RRIdleCfg /\ rr_pool = <<>>
    /\ rr_ce = <<>> /\ rr_norm = NoNorm /\ rr_order = <<>> /\ rr_out = <<>>
    /\ rr_model_calls = <<>>

InitFn == OrchInit /\ RRIdle /\ FnIdle

NextChunk == ChunkStart \/ ChunkStep \/ ChunkReturn

SpecChunk == InitFn /\ [][NextChunk]_vars

\* the loop runs on: an enabled iteration, and the return, are taken
SpecChunkFair == SpecChunk /\ WF_vars(ChunkStep) /\ WF_vars(ChunkReturn)

NextGather == GatherStart \/ TaskComplete \/ GatherReturn

SpecGather == InitFn /\ [][NextGather]_vars

NextPermute == PermuteCall

SpecPermute == InitFn /\ [][NextPermute]_vars

NextHealth == HealthCheckCall

SpecHealth == InitFn /\ [][NextHealth]_vars

NextFlatten == FlattenCall

SpecFlatten == InitFn /\ [][NextFlatten]_vars

NextSynth == SynFilter \/ SynDetect

SpecSynth == InitFn /\ [][NextSynth]_vars

NextRoute == RouteCall

SpecRoute == InitFn /\ [][NextRoute]_vars

NextAnalyze == AnalyzeCall

SpecAnalyze == InitFn /\ [][NextAnalyze]_vars

NextManager == ManagerSingle \/ ManagerMultiple \/ ManagerFallback

SpecManager == InitFn /\ [][NextManager]_vars

NextRetrieve ==
    \/ LocalRagRetrieveCall
    \/ TransportRetrieveCall
    \/ BaseRetrieveCall
    \/ WebSearchRetrieveCall

SpecRetrieve == InitFn /\ [][NextRetrieve]_vars

----------------------------------------------------------------------------
(* Properties of the reranker, checked under SpecRerank *)

RRDone == rr_phase = "done"

\* the candidate pool of the call, and the documents it was flattened from
RRPool == rr_pool
RRDocSlots == {sl \in (1..Len(rr_results)) \X (1..(MaxPool + 1)) :
                 /\ rr_results[sl[1]].kind = "result"
                 /\ sl[2] <= Len(rr_results[sl[1]].documents)}
RRNonEmptyCount == Cardinality({sl \in RRDocSlots :
                                  rr_results[sl[1]].documents[sl[2]].content # ""})

\* the retrieval scores present in the pool (a number, not None and not NaN)
RRPresent == {i \in 1..Len(RRPool) : RRPool[i].retrieval_score.kind = "num"}
RRScoreOf(i) == RRPool[i].retrieval_score.val
RRLo == CHOOSE v \in {RRScoreOf(i) : i \in RRPresent} : \A j \in RRPresent : v <= RRScoreOf(j)
RRHi == CHOOSE v \in {RRScoreOf(i) : i \in RRPresent} : \A j \in RRPresent : v >= RRScoreOf(j)
RRFused == rr_cfg.use_retrieval_score /\ RRPool # <<>>

\* the final score of pool position i, over the denominator of the call
RRFinal(i) ==
    IF rr_cfg.use_retrieval_score
    THEN rr_cfg.alpha * rr_ce[i] * rr_norm.den + (AlphaDen - rr_cfg.alpha) * rr_norm.num[i]
    ELSE rr_ce[i]

\* C6: rerank_from_results returns exactly min(top_k, N) contexts, N the number
\* of contained documents whose content is non-empty, for every positive top_k.
C6_Theorem == RRDone => Len(rr_out) = Min(rr_cfg.top_k, RRNonEmptyCount)

C6_Witness ==
    /\ RRDone
    /\ RRNonEmptyCount >= 2
    /\ RRNonEmptyCount < Cardinality(RRDocSlots)
    /\ rr_cfg.top_k < RRNonEmptyCount
    /\ Len(rr_out) = rr_cfg.top_k

\* C7: the returned contexts are in descending order of final score, candidates
\* of equal final score keep their pool order, and the list is the first top_k
\* of that order: no candidate left out precedes a returned one.
C7_Theorem ==
    RRDone =>
      /\ Len(rr_order) = Len(rr_out)
      /\ \A p \in 1..Len(rr_order) :
           /\ rr_order[p] \in 1..Len(RRPool)
           /\ rr_out[p].content = RRPool[rr_order[p]].content
           /\ rr_out[p].retrieval_score = RRPool[rr_order[p]].retrieval_score
           /\ rr_out[p].rerank_score.kind = "num"
           /\ rr_out[p].rerank_score.val = RRFinal(rr_order[p])
      /\ \A p, q \in 1..Len(rr_order) :
           p < q => \/ RRFinal(rr_order[p]) > RRFinal(rr_order[q])
                    \/ /\ RRFinal(rr_order[p]) = RRFinal(rr_order[q])
                       /\ rr_order[p] < rr_order[q]
      /\ \A p \in 1..Len(rr_order) : \A i \in (1..Len(RRPool)) \ Range(rr_order) :
           \/ RRFinal(rr_order[p]) > RRFinal(i)
           \/ /\ RRFinal(rr_order[p]) = RRFinal(i)
              /\ rr_order[p] < i

C7_Witness ==
    /\ RRDone
    /\ Len(rr_order) >= 3
    /\ Len(rr_order) < Len(RRPool) + 1
    /\ \E p \in 1..(Len(rr_order) - 1) :
         /\ RRFinal(rr_order[p]) = RRFinal(rr_order[p + 1])
         /\ rr_order[p] < rr_order[p + 1]
    /\ \E p \in 1..(Len(rr_order) - 1) : rr_order[p] > rr_order[p + 1]

C9_Claim ==
    (RRDone /\ RRFused) =>
      \A i \in 1..Len(RRPool) :
         RRPool[i].retrieval_score.kind = "none" =>
            /\ (Len(rr_out) = Min(rr_cfg.top_k, Len(RRPool)))
            /\ rr_norm.num[i] = 0

\* C10 as stated: if all present retrieval scores are identical, every normalised
\* score is 1.0 and the order with fusion equals the order by relevance alone,
\* for every alpha in [0,1].
C10_Original ==
    (RRDone /\ RRFused /\ RRPresent # {} /\ RRHi = RRLo) =>
      /\ \A i \in 1..Len(RRPool) : rr_norm.num[i] = rr_norm.den
      /\ rr_order = RerankOrder(RRPool, rr_ce, rr_cfg.top_k, rr_cfg.alpha, FALSE)

\* C10 as amended: the same for every alpha > 0.
C10_Theorem ==
    (RRDone /\ RRFused /\ RRPresent # {} /\ RRHi = RRLo /\ rr_cfg.alpha > 0) =>
      /\ \A i \in 1..Len(RRPool) : rr_norm.num[i] = rr_norm.den
      /\ rr_order = RerankOrder(RRPool, rr_ce, rr_cfg.top_k, rr_cfg.alpha, FALSE)

C10_Witness ==
    /\ RRDone /\ RRFused /\ RRPresent # {} /\ RRHi = RRLo
    /\ rr_cfg.alpha = DefaultAlpha
    /\ Cardinality(RRPresent) >= 2
    /\ Len(rr_order) >= 2
    /\ rr_order[1] > rr_order[2]


----------------------------------------------------------------------------
(* Properties of the orchestrator (checked under Spec) *)

\* run has returned its response
RunReturned == pc = "returned"

\* the retrieval step of this request is over
RetrievalOver == pc \in {"retrieved", "reranked"} \/ (pc = "returned" /\ synth_calls # <<>>)

RaisedIn(stages) == \E i \in 1..Len(raised) : raised[i].stage \in stages

Queried(name) == \E i \in 1..Len(calls) : calls[i].name = name

Apology(e) ==
    [answer |-> "Sorry, an error occurred while processing your query: " \o e,
     sources |-> <<>>, confidence |-> 0, error |-> e]

\* C1 (as stated): whenever any stage has raised - analysis, routing,
\* retrieval/reranking or synthesis - run returns the apology response carrying
\* the text of a raised exception, confidence 0.0, no sources and the error field.
C1_Original ==
    (RunReturned /\ raised # <<>>) =>
        \E i \in 1..Len(raised) : response = Apology(raised[i].err)

\* C1: run always returns a response.  If input extraction, analysis, routing or
\* synthesis raises, the response is the apology with the exception text,
\* confidence 0.0, no sources and error = the exception text.  An exception
\* raised by a backend or by the reranker is absorbed inside the retrieval
\* step: the pipeline goes on to synthesis, and if nothing else raises the
\* response is the synthesized one, with confidence 1.0 and no error field.
C1_Theorem ==
    RunReturned =>
        /\ response # NoValue
        /\ RaisedIn({"input", "analysis", "routing", "synthesis"}) =>
              response = Apology(raised[Len(raised)].err)
        /\ ~RaisedIn({"input", "analysis", "routing", "synthesis"}) =>
              /\ synth_calls # <<>>
              /\ "error" \notin DOMAIN response
              /\ response.confidence = 1

\* a backend raised, was absorbed, and then synthesis raised
C1_Witness ==
    /\ RunReturned
    /\ Len(raised) = 2
    /\ raised[1].stage = "backend"
    /\ raised[2].stage = "synthesis"
    /\ response.error = raised[2].err

C3_Claim ==
    (pc = "reranked" /\ \E i \in 1..Len(calls) : ~calls[i].ok) =>
        \A i \in 1..Len(calls) :
           \A d \in 1..Len(calls[i].documents) :
              (calls[i].ok /\ calls[i].documents[d].content # "") =>
                 /\ rerank_calls # <<>>
                 /\ \E j \in 1..Len(rerank_calls[1]) :
                       /\ rerank_calls[1][j].content = calls[i].documents[d].content
                       /\ rerank_calls[1][j].source = calls[i].documents[d].source

\* C4: when every backend queried for the request failed (and neither the
\* reranker nor the model call raised), the reranker was handed an empty pool,
\* synthesis ran on the empty-context prompt, and the response has no error field.
C4_Claim ==
    (/\ RunReturned
     /\ calls # <<>>
     /\ \A i \in 1..Len(calls) : ~calls[i].ok
     /\ ~RaisedIn({"rerank", "synthesis"})) =>
        /\ Len(rerank_calls) = 1
        /\ rerank_calls[1] = <<>>
        /\ Len(synth_calls) = 1
        /\ synth_calls[1].block = NoDocumentsBlock
        /\ "error" \notin DOMAIN response

\* C5: every response run returns has a non-empty answer and a confidence
\* between 0 and 1.
C5_Claim ==
    RunReturned =>
        /\ response.answer # ""
        /\ response.confidence \in 0..1

\* C11: rerank on an empty candidate pool returns no context and never runs
\* the scoring model; the model is run only on batches of at least one
\* candidate, which together cover the pool.
C11_Theorem ==
    RRDone =>
        /\ (rr_pool = <<>>) => (rr_out = <<>> /\ rr_model_calls = <<>>)
        /\ (rr_model_calls # <<>>) =>
              /\ rr_pool # <<>>
              /\ \A b \in 1..Len(rr_model_calls) : rr_model_calls[b] >= 1
              /\ Len(rr_ce) = Len(rr_pool)

\* results that hold documents, none with content: the pool is empty
C11_Witness ==
    /\ RRDone
    /\ rr_pool = <<>>
    /\ \E r \in 1..Len(rr_results) : rr_results[r].documents # <<>>
    /\ rr_model_calls = <<>>

----------------------------------------------------------------------------
(* Properties of the synthesizer, checked under SpecSynth *)

FilterDone == fn_phase = "done" /\ fn_call.op = "filter"
LanguageDone == fn_phase = "done" /\ fn_call.op = "language"

\* total content length of the first n contexts
RECURSIVE CharsOfFirst(_, _)
CharsOfFirst(contexts, n) ==
    IF n = 0 THEN 0 ELSE CharsOfFirst(contexts, n - 1) + Len(contexts[n].content)

\* C12: the budgeted contexts are the longest prefix of the first top_k
\* contexts whose total content length is within the budget: each included
\* context is the input context at the same position, unchanged; there are at
\* most top_k; the first context that would overflow is left out with all after it.
C12_Theorem ==
    FilterDone =>
        LET contexts == fn_call.contexts
            out == fn_call.filtered_contexts
            n == Len(out)
            limit == Min(fn_call.top_k, Len(contexts))
        IN /\ n <= limit
           /\ \A i \in 1..n : out[i] = contexts[i]
           /\ CharsOfFirst(contexts, n) <= fn_call.max_context_chars
           /\ n < limit => CharsOfFirst(contexts, n + 1) > fn_call.max_context_chars

\* a context overflows the budget and a later, shorter one would have fitted
C12_Witness ==
    /\ FilterDone
    /\ fn_call.top_k = 3
    /\ fn_call.max_context_chars = 2
    /\ Len(fn_call.contexts) = 3
    /\ fn_call.contexts[1].content = "a"
    /\ fn_call.contexts[2].content = "bb"
    /\ fn_call.contexts[3].content = "a"
    /\ Len(fn_call.filtered_contexts) = 1

\* C13: the Chinese instruction is chosen exactly when the raw query has a
\* character in U+4E00..U+9FFF, the English one otherwise (an empty raw query
\* included), whatever the rewritten query is.
C13_Theorem ==
    LanguageDone =>
        LET cjk == \E i \in 1..Len(fn_call.raw_query) :
                       /\ fn_call.raw_query[i] >= 19968
                       /\ fn_call.raw_query[i] <= 40959
        IN /\ fn_call.instruction \in {ZhInstruction, EnInstruction}
           /\ fn_call.instruction = ZhInstruction <=> cjk
           /\ fn_call.instruction = EnInstruction <=> ~cjk

\* a Latin raw query ending in an ideograph, rewritten into a Latin query
C13_Witness ==
    /\ LanguageDone
    /\ fn_call.raw_query = <<65, 19968>>
    /\ fn_call.query = <<65>>
    /\ fn_call.instruction = ZhInstruction

----------------------------------------------------------------------------
(* Properties of the router, checked under SpecRoute *)

RouteDone == fn_phase = "done" /\ fn_call.op = "route"

\* the lower-cased domain labels and keywords of the analysis given to route
QueryTerms ==
    {Lower(fn_call.analysis_results.domain_areas[i]) :
        i \in 1..Len(fn_call.analysis_results.domain_areas)}
    \cup {Lower(fn_call.analysis_results.keywords[i]) :
            i \in 1..Len(fn_call.analysis_results.keywords)}

QueryLabels ==
    {Lower(fn_call.analysis_results.domain_areas[i]) :
        i \in 1..Len(fn_call.analysis_results.domain_areas)}

\* positions in the registry of the backends whose tags meet a set of terms
Matching(terms) ==
    {i \in 1..Len(fn_call.registry) : ToolDomains(fn_call.registry[i]) \cap terms # {}}

\* C14: when nothing raised, route selects the first backend in registry order
\* whose domain tags meet the lower-cased domain labels or keywords of the
\* analysis, and the LLM classifier is consulted only when no backend does.
C14_Claim ==
    (RouteDone /\ fn_call.routing_results.raised = <<>>) =>
        /\ Matching(QueryTerms) # {} =>
              /\ fn_call.routing_results.selected_tool =
                    fn_call.registry[SetMin(Matching(QueryTerms))]
              /\ ~fn_call.routing_results.llm_consulted
        /\ fn_call.routing_results.llm_consulted => Matching(QueryTerms) = {}

\* C15 (as stated): an exception in any routing step, metadata extraction
\* included, gives the web_search decision whose reasoning carries the error.
C15_Original ==
    (RouteDone /\ (fn_call.routing_results.raised # <<>>
                   \/ fn_call.routing_results.metadata_raised)) =>
        /\ fn_call.routing_results.selected_tool = "web_search"
        /\ \E e \in {"registry unavailable", "rate limit", AttributeErrorText} :
              fn_call.routing_results.reasoning =
                 "Error in routing: " \o e \o ". Defaulting to 'web_search'."

\* C15: route always returns a decision.  An exception in tool discovery, exact
\* matching or LLM classification gives selected_tool = "web_search", empty
\* metadata and a reasoning that carries the error text.  An exception in
\* metadata extraction is absorbed: the tool already chosen stays selected,
\* with empty metadata and the reasoning of the step that chose it.
C15_Theorem ==
    RouteDone =>
        LET r == fn_call.routing_results
        IN /\ r.raised # <<>> =>
                /\ r.selected_tool = "web_search"
                /\ r.retrieval_metadata = {}
                /\ r.reasoning =
                     "Error in routing: " \o r.raised[1] \o ". Defaulting to 'web_search'."
           /\ r.metadata_raised =>
                /\ r.raised = <<>>
                /\ r.retrieval_metadata = {}
                /\ \/ /\ ~r.llm_consulted
                      /\ r.selected_tool \in Range(fn_call.registry)
                      /\ r.reasoning =
                           "Exact domain match found for tool '" \o r.selected_tool \o "'."
                   \/ /\ r.llm_consulted
                      /\ r.selected_tool = r.llm_named
                      /\ r.llm_named # ""
                      /\ r.reasoning = "fits"

\* the classifier raised after no backend matched
C15_Witness ==
    /\ RouteDone
    /\ fn_call.routing_results.llm_consulted
    /\ fn_call.routing_results.raised = <<"rate limit">>
    /\ fn_call.registry # <<>>

\* C16: when nothing raised and the analysed domain is "general", or no backend
\* matched and the classifier named none, the decision is web_search alone.
C16_Claim ==
    (/\ RouteDone
     /\ fn_call.routing_results.raised = <<>>
     /\ \/ fn_call.analysis_results.domain_areas = <<"general">>
        \/ /\ Matching(QueryLabels) = {}
           /\ fn_call.routing_results.llm_consulted
           /\ fn_call.routing_results.llm_named = "") =>
        fn_call.routing_results.selected_tool = "web_search"

----------------------------------------------------------------------------
(* Properties of the query analyzer, checked under SpecAnalyze *)

AnalyzeDone == fn_phase = "done" /\ fn_call.op = "analyze"

\* C17: for a non-empty query, whatever the rewrite call did, the analysis has
\* a non-empty rewritten_query, which is the original query when rewriting raised.
C17_Claim ==
    (AnalyzeDone /\ fn_call.query # "") =>
        /\ fn_call.analysis_results.rewritten_query # ""
        /\ fn_call.rewrite_raised =>
              fn_call.analysis_results.rewritten_query = fn_call.query

\* C18: when rewriting or extraction raised, analyze returns the all-default
\* analysis - no keywords, an empty time list, domain "unknown" - and run gets
\* from it to the routing step.
C18_Claim ==
    (AnalyzeDone /\ (fn_call.rewrite_raised \/ fn_call.extraction_raised)) =>
        LET a == fn_call.analysis_results
        IN /\ a.keywords = <<>>
           /\ "time_related" \in DOMAIN a
           /\ a.time_related = <<>>
           /\ "domain_area" \in DOMAIN a
           /\ a.domain_area = "unknown"
           /\ fn_call.reaches_routing

----------------------------------------------------------------------------
(* Properties of the retrieval manager, checked under SpecManager *)

ManagerDone ==
    fn_phase = "done" /\ fn_call.op \in {"retrieve_from_single", "retrieve_from_multiple"}

\* C19: a request that names a backend missing from the registry raises an
\* error that lists the registered backend names, and invokes no backend.
C19_Claim ==
    (ManagerDone /\ \E i \in 1..Len(fn_call.requested) :
                       fn_call.requested[i] \notin Range(ManagerRetrievers)) =>
        /\ fn_call.returned.raised
        /\ Range(ManagerRetrievers) \subseteq fn_call.returned.error.names
        /\ fn_call.returned.invoked = <<>>

----------------------------------------------------------------------------
(* Properties of the retrievers, checked under SpecRetrieve *)

RetrieveDone == fn_phase = "done" /\ fn_call.op \in {"local_rag", "transport", "base"}

C21_Claim ==
    (fn_phase = "done" /\ fn_call.op = "web_search" /\ Strip(fn_call.query) = "") =>
        /\ fn_call.raised
        /\ ~fn_call.searched
        /\ fn_call.documents = <<>>

----------------------------------------------------------------------------
(* Properties of flattening, checked under SpecFlatten *)

FlattenDone == fn_phase = "done" /\ fn_call.op = "flatten"
FlatIn == fn_call.retrieval_results
FlatOut == fn_call.contexts
\* the documents with content: <<result position, document position>>
FlatSlots == {sl \in (1..Len(FlatIn)) \X (1..(MaxFlatDocs + 1)) :
                /\ FlatIn[sl[1]].kind = "result"
                /\ sl[2] <= Len(FlatIn[sl[1]].documents)
                /\ FlatIn[sl[1]].documents[sl[2]].content # ""}
\* the place of a slot in result order, then document order
FlatRank(sl) == Cardinality({t \in FlatSlots :
                               t[1] < sl[1] \/ (t[1] = sl[1] /\ t[2] <= sl[2])})
FlatOverride(lower, upper) ==
    [x \in DOMAIN lower \cup DOMAIN upper |->
        IF x \in DOMAIN upper THEN upper[x] ELSE lower[x]]
\* provider and latency of a result, as metadata entries
FlatResultFields(res) ==
    IF res.latency = NoLatency THEN [provider |-> res.provider]
    ELSE [provider |-> res.provider, latency |-> res.latency]
FlatShape(metadata_of(_), source_of(_, _)) ==
    FlattenDone =>
        /\ Len(FlatOut) = Cardinality(FlatSlots)
        /\ \A sl \in FlatSlots :
             LET res == FlatIn[sl[1]]
                 doc == res.documents[sl[2]]
                 c == FlatOut[FlatRank(sl)]
             IN /\ c.content = doc.content
                /\ c.retrieval_score = doc.score
                /\ c.metadata = FlatOverride(metadata_of(res), doc.metadata)
                /\ c.source = source_of(res, doc)

FlatMetaAsStated(res) == res.metadata
FlatSourceAsStated(res, doc) == IF doc.source # "" THEN doc.source ELSE res.provider
FlatMetaWithFields(res) == FlatOverride(FlatResultFields(res), res.metadata)
FlatSourceOrUnknown(res, doc) ==
    IF doc.source # "" THEN doc.source
    ELSE IF res.provider # "" THEN res.provider ELSE "unknown"

----------------------------------------------------------------------------
(* Stage order of one request, checked under Spec *)

StageRank(p) ==
    CASE p \in {"idle", "called"} -> 0
      [] p = "received" -> 1
      [] p = "analyzed" -> 2
      [] p = "routed" -> 3
      [] p = "tools_done" -> 4
      [] p = "retrieved" -> 5
      [] p = "reranked" -> 6
      [] p = "returned" -> 7

\* a step inside one request (not the call that starts the next one)
InRequest == pc' # "called"

\* C23: inside one request the position only moves forward; analysis runs only
\* on a received request, routing only on an analysed one, backends are called
\* only after routing, the reranker at most once and only on a finished
\* retrieval, the synthesizer at most once and only on the outcome of the
\* retrieval-and-rerank step; a response appears only on return, and it is the
\* answer of a synthesis that ran or the error response of a raised exception.
C23_Theorem ==
    [][InRequest =>
        /\ pc' # pc => StageRank(pc') > StageRank(pc)
        /\ analysis_results' # analysis_results => pc = "received"
        /\ routing_results' # routing_results =>
              pc = "analyzed" /\ analysis_results # NoValue
        /\ calls' # calls =>
              /\ pc \in {"routed", "tools_done"}
              /\ routing_results # NoValue
              /\ rerank_calls = <<>>
        /\ rerank_calls' # rerank_calls =>
              /\ pc = "retrieved"
              /\ retrieval_results # NoValue
              /\ rerank_calls = <<>>
              /\ Len(rerank_calls') = 1
        /\ synth_calls' # synth_calls =>
              /\ pc = "reranked"
              /\ rerank_result # NoValue
              /\ synth_calls = <<>>
              /\ Len(synth_calls') = 1
        /\ response' # response =>
              /\ response = NoValue
              /\ pc' = "returned"
              /\ \/ "error" \in DOMAIN response' /\ raised' # raised
                 \/ /\ "error" \notin DOMAIN response'
                    /\ pc = "reranked"
                    /\ synth_calls' # <<>>]_vars

\* a request that went through every stage: a specialised backend and web
\* search were called, the reranker and the synthesizer ran, an answer returned
C23_Witness ==
    /\ RunReturned
    /\ raised = <<>>
    /\ Len(calls) >= 2
    /\ Len(rerank_calls) = 1
    /\ Len(synth_calls) = 1
    /\ "error" \notin DOMAIN response
    /\ "answer" \in DOMAIN response

----------------------------------------------------------------------------
(* Properties of health_check, checked under SpecHealth *)

HealthDone == fn_phase = "done" /\ fn_call.op = "health_check"

\* C24: health_check does not raise, and its map has one entry per pipeline
\* component, holding the boolean of that component's own self-check.
C24_Claim ==
    HealthDone =>
        /\ ~fn_call.raised
        /\ DOMAIN fn_call.status = Components
        /\ \A c \in Components :
             fn_call.self_check[c] # "raises" =>
                fn_call.status[c] = (fn_call.self_check[c] = "healthy")

----------------------------------------------------------------------------
(* The result objects after the retrieval step, checked under Spec *)

\* retrieval_results is the object the web_search call returned (line 123),
\* after the loop of lines 128-129 has run on it
WebResultObject == retrieval_results
WebCallMade ==
    /\ pc \in {"retrieved", "reranked"}
    /\ ~skip_web_search
    /\ retrieval_results # NoValue

\* C25: after the retrieval step a backend's result holds exactly the documents
\* its own call returned, each attributed to that backend, and the results of
\* the specialised backends are as returned too.
C25_Claim ==
    WebCallMade =>
        /\ WebResultObject.documents = calls[Len(calls)].documents
        /\ \A i \in 1..Len(WebResultObject.documents) :
             WebResultObject.documents[i].source = WebResultObject.provider
        /\ \A i \in 1..Len(tool_retrievals) :
             tool_retrievals[i].documents = calls[i].documents

----------------------------------------------------------------------------
(* What reranking writes, checked under SpecRerank *)

\* C26: no ContextDoc of the flattened pool has a rerank_score; every returned
\* ContextDoc has one and is, in every other field (content, source, metadata,
\* retrieval_score), the pool entry it was taken from; the retrieval results
\* the pool was flattened from are never changed.
C26_Theorem ==
    /\ [](RRDone =>
            /\ \A i \in 1..Len(RRPool) : RRPool[i].rerank_score = NoRerankScore
            /\ Len(rr_out) = Len(rr_order)
            /\ \A p \in 1..Len(rr_out) :
                 /\ rr_out[p].rerank_score.kind = "num"
                 /\ DOMAIN rr_out[p] = DOMAIN RRPool[rr_order[p]]
                 /\ \A f \in DOMAIN rr_out[p] \ {"rerank_score"} :
                      rr_out[p][f] = RRPool[rr_order[p]][f])
    /\ [][rr_results' = rr_results]_vars

\* a call that returned two contexts in another order than the pool's, both
\* with a retrieval score
C26_Witness ==
    /\ RRDone
    /\ Len(rr_out) >= 2
    /\ rr_order[1] # 1
    /\ rr_out[1].retrieval_score.kind = "num"
    /\ rr_out[1].retrieval_score # rr_out[2].retrieval_score

----------------------------------------------------------------------------
(* Arrival order and the reranker's output, checked under SpecPermute *)

PermuteDone == fn_phase = "done" /\ fn_call.op = "permute"
PermScoresOf(returned) == [p \in 1..Len(returned) |-> returned[p].rerank_score]
PermDistinctFinal ==
    \A i, j \in 1..Len(fn_call.final) : fn_call.final[i] = fn_call.final[j] => i = j

\* C27 as stated: rerank returns the same ordered top-k list for every
\* permutation of the candidates in the pool.
C27_Original == PermuteDone => fn_call.returned_permuted = fn_call.returned

\* C27: for every permutation of the candidates the returned list carries the
\* same final scores in the same order, and it is the same ordered list of
\* candidates whenever no two candidates of the pool have the same final score.
C27_Theorem ==
    PermuteDone =>
        /\ PermScoresOf(fn_call.returned_permuted) = PermScoresOf(fn_call.returned)
        /\ PermDistinctFinal => fn_call.returned_permuted = fn_call.returned

\* three candidates with pairwise different final scores, reversed, cut to two
C27_Witness ==
    /\ PermuteDone
    /\ Len(fn_call.contexts) = 3
    /\ PermDistinctFinal
    /\ fn_call.perm = <<3, 2, 1>>
    /\ fn_call.top_k = 2
    /\ fn_call.returned[1].content # "a"

----------------------------------------------------------------------------
(* Properties of the concurrent fan-out, checked under SpecGather *)

GatherDone == fn_phase = "done" /\ fn_call.op = "gather"
\* the task of requested position i, or 0 when the name is not registered
GatherTaskOf(i) ==
    IF \E t \in 1..Len(fn_call.tasks) : fn_call.tasks[t] = i
    THEN CHOOSE t \in 1..Len(fn_call.tasks) : fn_call.tasks[t] = i
    ELSE 0
\* what requested position i contributes
GatherBlock(i) ==
    LET t == GatherTaskOf(i)
    IN IF fn_call.requested[i] \notin Range(ManagerRetrievers) THEN <<>>
       ELSE IF fn_call.outcome[t].kind = "raise" THEN <<>>
       ELSE [j \in 1..Len(fn_call.outcome[t].results) |->
               [content |-> fn_call.outcome[t].results[j].content,
                rank |-> fn_call.outcome[t].results[j].rank,
                retriever |-> fn_call.requested[i]]]

\* C28: whatever the order in which the retrievers finish, the returned list
\* is the successful retrievers' results as blocks in the order the names were
\* requested, each result tagged with its retriever's name; a name that is not
\* registered and a retriever that raises contribute nothing.
C28_Theorem ==
    GatherDone =>
        fn_call.results = Concat([i \in 1..Len(fn_call.requested) |-> GatherBlock(i)])

\* two different retrievers, the second finished first, both returned a result
C28_Witness ==
    /\ GatherDone
    /\ Len(fn_call.requested) = 2
    /\ fn_call.completed = <<2, 1>>
    /\ fn_call.requested[1] # fn_call.requested[2]
    /\ Len(fn_call.results) = 2

----------------------------------------------------------------------------
(* Properties of retrieve_with_fallback, checked under SpecManager *)

FallbackDone == fn_phase = "done" /\ fn_call.op = "retrieve_with_fallback"

\* C29: for top_k >= 1 the fallback retrievers are queried whenever the primary
\* ones return nothing, their results come after the primary ones, and at most
\* top_k results are returned.
C29_Claim ==
    (FallbackDone /\ fn_call.top_k >= 1) =>
        LET r == fn_call.returned
            all == r.primary_results \o r.fallback_results
        IN /\ r.primary_results = <<>> => r.fallback_queried
           /\ Len(r.results) <= fn_call.top_k
           /\ r.results = SubSeq(all, 1, Len(r.results))

----------------------------------------------------------------------------
(* Termination of chunk_text, checked under SpecChunkFair *)

ChunkRunning == fn_phase = "running" /\ fn_call.op = "chunk_text"
ChunkDone == fn_phase = "done" /\ fn_call.op = "chunk_text"

\* C30: for chunk_size > overlap >= 0 every loop iteration moves start forward,
\* and every call returns, its chunks covering the text up to its end.
C30_Claim ==
    /\ [][ChunkRunning /\ fn_phase' = "running" => fn_call'.start > fn_call.start]_vars
    /\ ChunkRunning ~> ChunkDone
    /\ [](ChunkDone => fn_call.covered = Len(fn_call.text))

====
